---- MODULE Spec2Model ----
(***************************************************************************)
(* Model of .github/actions/size_pull_request/check_pr.py: one run of the  *)
(* script, from argument parsing to process exit.  Text is a sequence of   *)
(* one-character strings, subprocess output a sequence of bytes, so that   *)
(* formatting, decoding, integer conversion and the regular expression are *)
(* computed as the code computes them.                                     *)
(***************************************************************************)
EXTENDS Integers, Sequences, FiniteSets

VARIABLES pc, argv, args, environ, proc, m, summary, requests, exc, exitcode

vars == <<pc, argv, args, environ, proc, m, summary, requests, exc, exitcode>>

\* ------------------------------------------------------------------ bounds

\* Total number of digit characters in the three digit groups of a generated
\* summary line.
MaxDigits == 4

\* ------------------------------------------------------- program constants

HTTP_OK == 200

URL_PREFIX == <<"h","t","t","p","s",":","/","/","a","p","i",".","g","i","t","h","u","b",".","c","o","m","/","r","e","p","o","s","/">>
URL_ISSUES == <<"/","i","s","s","u","e","s","/">>
URL_COMMENTS == <<"/","c","o","m","m","e","n","t","s">>
MSG_POST == <<"P","o","s","t"," ","t","o"," ","U","R","L"," ">>
MSG_RETURNED == <<" ","r","e","t","u","r","n","e","d"," ","s","t","a","t","u","s"," ","c","o","d","e"," ","="," ">>
RAW_PREFIX == <<"O","u","t","p","u","t"," ","=",">"," ">>
SUM_FILES == <<"f","i","l","e","s"," ","="," ">>
SUM_INS == <<" ","-"," ","i","n","s","e","r","t","i","o","n","s"," ","="," ">>
SUM_DEL == <<" ","-"," ","d","e","l","e","t","i","o","n","s"," ","="," ">>
LIT_FILES == <<" ","f","i","l","e","s"," ","c","h","a","n","g","e","d",","," ">>
LIT_INS == <<" ","i","n","s","e","r","t","i","o","n","s","(","+",")",","," ">>
LIT_DEL == <<" ","d","e","l","e","t","i","o","n","s","(","-",")">>
BEARER == <<"B","e","a","r","e","r"," ">>
NONE_STR == <<"N","o","n","e">>
ACCEPT == "application/vnd.github+json"
API_VERSION == "2022-11-28"

\* ------------------------------------------------------------ text helpers

DIGITS == <<"0","1","2","3","4","5","6","7","8","9">>

DigitChars == {DIGITS[i] : i \in 1..10}

DigitValue(c) == (CHOOSE i \in 1..10 : DIGITS[i] = c) - 1

SetMax(S) == CHOOSE x \in S : \A y \in S : y <= x

SetMin(S) == CHOOSE x \in S : \A y \in S : x <= y

\* str(n) of a non-negative integer, as an f-string formats it.
RECURSIVE IntToStr(_)
IntToStr(n) ==
    IF n < 10 THEN <<DIGITS[n + 1]>>
    ELSE IntToStr(n \div 10) \o <<DIGITS[(n % 10) + 1]>>

\* int(s) of a string of decimal digits; the empty string (and any other
\* character) is a ValueError.
IntParses(s) == Len(s) > 0 /\ \A i \in 1..Len(s) : s[i] \in DigitChars

RECURSIVE StrToInt(_)
StrToInt(s) ==
    IF Len(s) = 0 THEN 0
    ELSE 10 * StrToInt(SubSeq(s, 1, Len(s) - 1)) + DigitValue(s[Len(s)])

\* bytes.decode(): UTF-8.  An ASCII byte is its character; the two bytes
\* C3 A9 are the one character U+00E9.
Decode(b) ==
    LET chars == [i \in 1..Len(b) |->
                    IF b[i] = "\\xc3" /\ i < Len(b) /\ b[i + 1] = "\\xa9"
                    THEN "U+00E9"
                    ELSE IF b[i] = "\\xa9" /\ i > 1 /\ b[i - 1] = "\\xc3"
                         THEN ""
                         ELSE b[i]]
        IsChar(c) == c # ""
    IN  SelectSeq(chars, IsChar)

\* "%s" % os.environ.get("GITHUB_TOKEN"): an unset variable is None.
EnvironGet(env) == IF env.set THEN env.value ELSE NONE_STR

\* ------------------------------------------------------ regular expression

\* The pattern of re.search at line 41, one element per pattern item: a
\* capturing group (\d*) or a run of literal characters.
GROUP == <<"(\\d*)">>

PATTERN == <<GROUP, LIT_FILES, GROUP, LIT_INS, GROUP, LIT_DEL>>

NoMatch == [matched |-> FALSE, groups |-> <<>>]

\* Number of consecutive digit characters of s from position i on.
RECURSIVE DigitRun(_, _)
DigitRun(s, i) ==
    IF i <= Len(s) /\ s[i] \in DigitChars THEN 1 + DigitRun(s, i + 1) ELSE 0

\* The literal characters lit stand in s at position i.
LiteralAt(s, i, lit) ==
    /\ i + Len(lit) - 1 <= Len(s)
    /\ SubSeq(s, i, i + Len(lit) - 1) = lit

\* Backtracking match of PATTERN[k..] against s at position i.  A group is
\* greedy: it takes the longest run of digits that lets the rest match.
RECURSIVE MatchHere(_, _, _)
MatchHere(s, i, k) ==
    IF k > Len(PATTERN) THEN [matched |-> TRUE, groups |-> <<>>]
    ELSE IF PATTERN[k] = GROUP
         THEN LET n == DigitRun(s, i)
                  fits == {j \in 0..n : MatchHere(s, i + j, k + 1).matched}
              IN  IF fits = {} THEN NoMatch
                  ELSE LET j == SetMax(fits)
                       IN  [matched |-> TRUE,
                            groups |-> <<SubSeq(s, i, i + j - 1)>>
                                       \o MatchHere(s, i + j, k + 1).groups]
         ELSE IF LiteralAt(s, i, PATTERN[k])
              THEN MatchHere(s, i + Len(PATTERN[k]), k + 1)
              ELSE NoMatch

\* re.search: the match at the leftmost position where the pattern matches,
\* or None.
re_search(s) ==
    LET starts == {i \in 1..(Len(s) + 1) : MatchHere(s, i, 1).matched}
    IN  IF starts = {} THEN NoMatch ELSE MatchHere(s, SetMin(starts), 1)

\* ------------------------------------------------------------------ inputs

\* The command lines: --path, --repository, and --pr-number as typed.
Argvs ==
    { [path |-> ".", repository |-> <<"o","/","r">>, pr_number |-> <<"7">>],
      [path |-> "..", repository |-> <<"a","/","b">>, pr_number |-> <<"0","3","0">>],
      [path |-> ".", repository |-> <<"o","/","r">>, pr_number |-> <<"x">>] }

\* GITHUB_TOKEN: unset, or set.
TokenValues == { [set |-> FALSE, value |-> <<>>],
                 [set |-> TRUE, value |-> <<"t","1">>] }

StatusCodes == {200, 201, 404}

\* What the subprocess leaves besides its standard output.
ProcOutcomes == { [returncode |-> 0, err |-> ""],
                  [returncode |-> 1, err |-> "fatal: Not a valid object name FETCH_HEAD"],
                  [returncode |-> 0, err |-> "warning: refname is ambiguous"] }

GenDigits == {"0", "3"}

DigitStrs == UNION {[1..k -> GenDigits] : k \in 0..MaxDigits}

DigitTriples ==
    {t \in DigitStrs \X DigitStrs \X DigitStrs :
        Len(t[1]) + Len(t[2]) + Len(t[3]) <= MaxDigits}

SummaryLine(t) == t[1] \o LIT_FILES \o t[2] \o LIT_INS \o t[3] \o LIT_DEL

STAT_LINE == <<" ","a"," ","|"," ","3"," ","+","-","\n">>

\* What precedes the summary line: nothing, a per-file line as git prints
\* it, or a line that itself ends like a summary.
Heads == { <<>>, STAT_LINE \o <<" ">>,
           LIT_FILES \o <<"3">> \o LIT_INS \o <<"3">> \o LIT_DEL \o <<"\n">> }

OtherOutputs ==
    { <<>>,
      <<"3"," ","f","i","l","e","s"," ","c","h","a","n","g","e","d",","," ","4","5"," ","i","n","s","e","r","t","i","o","n","s","(","+",")",","," ","1","0"," ","d","e","l","e","t","i","o","n","s","(","-",")","\n">>,
      <<" ","1"," ","f","i","l","e"," ","c","h","a","n","g","e","d",","," ","1"," ","i","n","s","e","r","t","i","o","n","(","+",")",","," ","1"," ","d","e","l","e","t","i","o","n","(","-",")","\n">>,
      <<" ","3"," ","f","i","l","e","s"," ","c","h","a","n","g","e","d",","," ","3"," ","i","n","s","e","r","t","i","o","n","s","(","+",")","\n">>,
      <<" ","\\xc3","\\xa9"," ","|"," ","3"," ","+","\n"," ">> \o SummaryLine(<<<<"3">>, <<"3">>, <<"0">>>>) \o <<"\n">> }

\* Standard output of the subprocess, as bytes.
Outputs ==
    {h \o SummaryLine(t) \o (IF h = <<>> THEN <<>> ELSE <<"\n">>) :
        h \in Heads, t \in DigitTriples} \cup OtherOutputs

\* ------------------------------------------------------------------- state

NoExc == [type |-> "None", message |-> <<>>]

NoArgs == [path |-> "", repository |-> <<>>, pr_number |-> 0]

NoProc == [out |-> <<>>, err |-> "", returncode |-> 0]

\* No summary was built (the code has no such variable until line 45).
NoSummary == [files |-> -1, insertions |-> -1, deletions |-> -1]

Init ==
    /\ pc = "main"
    /\ argv \in Argvs
    /\ args = NoArgs
    /\ environ \in TokenValues
    /\ proc = NoProc
    /\ m = NoMatch
    /\ summary = NoSummary
    /\ requests = <<>>
    /\ exc = NoExc
    /\ exitcode = -1

\* ------------------------------------------------------------ WriteComment

Url(repository, pr_number) ==
    URL_PREFIX \o repository \o URL_ISSUES \o IntToStr(pr_number) \o URL_COMMENTS

\* A variant that keeps the header of the first call for the later ones.
Authorization_Cached ==
    IF Len(requests) > 0 THEN requests[1].authorization
    ELSE BEARER \o EnvironGet(environ)

\* The Authorization header, from the environment as it is at the call.
Authorization == BEARER \o EnvironGet(environ)

\* A variant that takes every 2xx status for a success.
RaisesOnStatus_Any2xx(status_code) == status_code \notin 200..299

\* result.status_code != 200
RaisesOnStatus(status_code) == status_code # HTTP_OK

ErrorMessage(url, status_code) ==
    MSG_POST \o url \o MSG_RETURNED \o IntToStr(status_code)

\* A variant that reports nothing: a status other than 200 does not raise.
WriteComment_NoRaise(repository, pr_number, comment, cont) ==
    \E status_code \in StatusCodes :
        LET url == Url(repository, pr_number)
            request == [url |-> url,
                        accept |-> ACCEPT,
                        api_version |-> API_VERSION,
                        authorization |-> Authorization,
                        body |-> comment,
                        status_code |-> status_code]
        IN  /\ requests' = Append(requests, request)
            /\ exc' = exc
            /\ pc' = cont

\* A variant that sends the request once more after a status other than 200.
WriteComment_Retry(repository, pr_number, comment, cont) ==
    \E status_code \in StatusCodes, second \in StatusCodes :
        LET url == Url(repository, pr_number)
            request == [url |-> url,
                        accept |-> ACCEPT,
                        api_version |-> API_VERSION,
                        authorization |-> Authorization,
                        body |-> comment,
                        status_code |-> status_code]
            again == [request EXCEPT !.status_code = second]
            last == IF RaisesOnStatus(status_code) THEN second ELSE status_code
        IN  /\ requests' = IF RaisesOnStatus(status_code)
                           THEN Append(Append(requests, request), again)
                           ELSE Append(requests, request)
            /\ IF RaisesOnStatus(last)
               THEN /\ exc' = [type |-> "RuntimeError",
                               message |-> ErrorMessage(url, last)]
                    /\ pc' = "raise"
               ELSE /\ exc' = exc
                    /\ pc' = cont

\* One call of WriteComment; cont is where the caller goes on when it
\* returns.  The response's status code is the remote's choice.
WriteComment(repository, pr_number, comment, cont) ==
    \E status_code \in StatusCodes :
        LET url == Url(repository, pr_number)
            request == [url |-> url,
                        accept |-> ACCEPT,
                        api_version |-> API_VERSION,
                        authorization |-> Authorization,
                        body |-> comment,
                        status_code |-> status_code]
        IN  /\ requests' = Append(requests, request)
            /\ IF RaisesOnStatus(status_code)
               THEN /\ exc' = [type |-> "RuntimeError",
                               message |-> ErrorMessage(url, status_code)]
                    /\ pc' = "raise"
               ELSE /\ exc' = exc
                    /\ pc' = cont

\* ----------------------------------------------------------------- actions

\* parser.parse_args(): --pr-number has type=int; a value int() refuses ends
\* the process with argparse's exit status 2.
ParseArgs ==
    /\ pc = "main"
    /\ IF IntParses(argv.pr_number)
       THEN /\ args' = [path |-> argv.path,
                        repository |-> argv.repository,
                        pr_number |-> StrToInt(argv.pr_number)]
            /\ pc' = "popen"
            /\ exc' = exc
       ELSE /\ args' = args
            /\ pc' = "raise"
            /\ exc' = [type |-> "SystemExit", message |-> <<"2">>]
    /\ UNCHANGED <<argv, environ, proc, m, summary, requests, exitcode>>

\* A variant that checks the return code, as subprocess.run(check=True) does.
Communicate_Checked ==
    /\ pc = "popen"
    /\ \E out \in Outputs, outcome \in ProcOutcomes :
          /\ proc' = [out |-> out, err |-> outcome.err,
                      returncode |-> outcome.returncode]
          /\ IF outcome.returncode # 0
             THEN /\ exc' = [type |-> "CalledProcessError", message |-> <<>>]
                  /\ pc' = "raise"
             ELSE /\ exc' = exc
                  /\ pc' = "write_raw"
    /\ UNCHANGED <<argv, args, environ, m, summary, requests, exitcode>>

\* subprocess.Popen(...) and proc.communicate(): waits for the subprocess
\* and keeps its standard output; the return code and the standard error are
\* kept by the process object and the discarded second value.
Communicate ==
    /\ pc = "popen"
    /\ \E out \in Outputs, outcome \in ProcOutcomes :
          proc' = [out |-> out, err |-> outcome.err,
                   returncode |-> outcome.returncode]
    /\ pc' = "write_raw"
    /\ UNCHANGED <<argv, args, environ, m, summary, requests, exc, exitcode>>

RawBody(out) == RAW_PREFIX \o Decode(out)

WriteRaw ==
    /\ pc = "write_raw"
    /\ WriteComment(args.repository, args.pr_number, RawBody(proc.out), "search")
    /\ UNCHANGED <<argv, args, environ, proc, m, summary, exitcode>>

Search ==
    /\ pc = "search"
    /\ m' = re_search(Decode(proc.out))
    /\ pc' = IF m'.matched THEN "convert" ELSE "return"
    /\ UNCHANGED <<argv, args, environ, proc, summary, requests, exc, exitcode>>

\* files = int(m.group(1)), insertions = int(m.group(2)),
\* deletions = int(m.group(3))
Convert ==
    /\ pc = "convert"
    /\ IF \A g \in 1..3 : IntParses(m.groups[g])
       THEN /\ summary' = [files |-> StrToInt(m.groups[1]),
                           insertions |-> StrToInt(m.groups[2]),
                           deletions |-> StrToInt(m.groups[3])]
            /\ pc' = "write_summary"
            /\ exc' = exc
       ELSE /\ summary' = summary
            /\ pc' = "raise"
            /\ exc' = [type |-> "ValueError", message |-> <<>>]
    /\ UNCHANGED <<argv, args, environ, proc, m, requests, exitcode>>

SummaryBody(s) ==
    SUM_FILES \o IntToStr(s.files) \o SUM_INS \o IntToStr(s.insertions)
              \o SUM_DEL \o IntToStr(s.deletions)

WriteSummary ==
    /\ pc = "write_summary"
    /\ WriteComment(args.repository, args.pr_number, SummaryBody(summary), "return")
    /\ UNCHANGED <<argv, args, environ, proc, m, summary, exitcode>>

\* The exit status of the interpreter: 0 when the script ran to its end, the
\* SystemExit code of argparse, 1 for an exception nobody caught.
ExitStatus(e) ==
    IF e.type = "None" THEN 0 ELSE IF e.type = "SystemExit" THEN 2 ELSE 1

ProcessExit ==
    /\ pc \in {"return", "raise"}
    /\ pc' = "exited"
    /\ exitcode' = ExitStatus(exc)
    /\ UNCHANGED <<argv, args, environ, proc, m, summary, requests, exc>>

\* The process environment is a mutable global (os.environ): whatever embeds
\* the functions may set or unset GITHUB_TOKEN between two steps.
Setenv ==
    /\ pc # "exited"
    /\ \E v \in TokenValues : v # environ /\ environ' = v
    /\ UNCHANGED <<pc, argv, args, proc, m, summary, requests, exc, exitcode>>

\* The steps of RunDiff, in the order of its lines.
RunDiff ==
    \/ Communicate
    \/ WriteRaw
    \/ Search
    \/ Convert
    \/ WriteSummary

Next ==
    \/ ParseArgs
    \/ RunDiff
    \/ ProcessExit
    \/ Setenv

Spec == Init /\ [][Next]_vars

\* ----------------------------------------------------- what the claims use

Contains(s, sub) ==
    \E i \in 1..(Len(s) - Len(sub) + 1) : SubSeq(s, i, i + Len(sub) - 1) = sub

\* Number of consecutive digit characters of s that end at position i.
RECURSIVE DigitRunBack(_, _)
DigitRunBack(s, i) ==
    IF i >= 1 /\ s[i] \in DigitChars THEN 1 + DigitRunBack(s, i - 1) ELSE 0

\* The positions p of s where " files changed, " stands inside an instance
\* of "N1 files changed, N2 insertions(+), N3 deletions(-)" with N1, N2, N3
\* whole, non-empty runs of digits.
SummaryInstances(s) ==
    {p \in 1..Len(s) :
        /\ LiteralAt(s, p, LIT_FILES)
        /\ DigitRunBack(s, p - 1) > 0
        /\ LET q == p + Len(LIT_FILES)
               n2 == DigitRun(s, q)
               r == q + n2 + Len(LIT_INS)
               n3 == DigitRun(s, r)
           IN  /\ n2 > 0
               /\ LiteralAt(s, q + n2, LIT_INS)
               /\ n3 > 0
               /\ LiteralAt(s, r + n3, LIT_DEL)}

HasSummaryPattern(s) == SummaryInstances(s) # {}

\* N1, N2, N3 of the first instance, as integers.
ExpectedSummary(s) ==
    LET p == SetMin(SummaryInstances(s))
        n1 == DigitRunBack(s, p - 1)
        q == p + Len(LIT_FILES)
        n2 == DigitRun(s, q)
        r == q + n2 + Len(LIT_INS)
        n3 == DigitRun(s, r)
    IN  [files |-> StrToInt(SubSeq(s, p - n1, p - 1)),
         insertions |-> StrToInt(SubSeq(s, q, q + n2 - 1)),
         deletions |-> StrToInt(SubSeq(s, r, r + n3 - 1))]

\* The captured standard output as text ("é" for the bytes C3 A9).
OutText == Decode(proc.out)

\* RunDiff was entered: the command line parsed.
RunDiffEntered == IntParses(argv.pr_number) /\ pc # "main"

\* The subprocess was waited on.
Communicated == RunDiffEntered /\ pc # "popen"

\* The raw comment was accepted and lines 40-47 have run.
ParseDone ==
    /\ Communicated
    /\ Len(requests) >= 1
    /\ requests[1].status_code = 200
    /\ pc \notin {"search", "convert"}

AllPostsOk == \A i \in 1..Len(requests) : requests[i].status_code = 200

\* The comments URL of the command line, written out.
ExpectedUrl ==
    IF argv.repository = <<"o","/","r">>
    THEN <<"h","t","t","p","s",":","/","/","a","p","i",".","g","i","t","h","u","b",".","c","o","m","/","r","e","p","o","s","/","o","/","r","/","i","s","s","u","e","s","/","7","/","c","o","m","m","e","n","t","s">>
    ELSE <<"h","t","t","p","s",":","/","/","a","p","i",".","g","i","t","h","u","b",".","c","o","m","/","r","e","p","o","s","/","a","/","b","/","i","s","s","u","e","s","/","3","0","/","c","o","m","m","e","n","t","s">>

StatusText(status_code) ==
    IF status_code = 200 THEN <<"2","0","0">>
    ELSE IF status_code = 201 THEN <<"2","0","1">>
    ELSE IF status_code = 404 THEN <<"4","0","4">>
    ELSE <<"?">>

BEARER_NONE == <<"B","e","a","r","e","r"," ","N","o","n","e">>

\* ------------------------------------------------------------------ claims

\* C1: a call of WriteComment issues one POST to
\* https://api.github.com/repos/<repository>/issues/<pr_number>/comments; on
\* status 200 it returns with nothing else changed, on every other status
\* (201 and 404 alike) it raises a RuntimeError whose message contains the
\* URL and the status code.
C1_WriteCommentContract ==
    [][requests' # requests =>
        /\ Len(requests') = Len(requests) + 1
        /\ SubSeq(requests', 1, Len(requests)) = requests
        /\ LET r == requests'[Len(requests')]
           IN  /\ r.url = ExpectedUrl
               /\ r.status_code = 200 =>
                    /\ exc' = NoExc
                    /\ pc' \in {"search", "return"}
                    /\ UNCHANGED <<argv, args, environ, proc, m, summary, exitcode>>
               /\ r.status_code # 200 =>
                    /\ exc'.type = "RuntimeError"
                    /\ Contains(exc'.message, ExpectedUrl)
                    /\ Contains(exc'.message, StatusText(r.status_code))
                    /\ pc' = "raise"
    ]_vars

\* A run whose first POST got 200 and whose second got 201 and raised.
C1_Witness ==
    /\ Len(requests) = 2
    /\ requests[1].status_code = 200
    /\ requests[2].status_code = 201
    /\ exc.type = "RuntimeError"
    /\ Contains(exc.message, StatusText(201))

\* C6: a POST answered with a status other than 200 is fatal: no POST
\* follows it (so no summary comment after a refused raw comment), the
\* RuntimeError is caught nowhere, the process ends with a non-zero exit
\* status, and exit status 0 means every POST of the run got 200.
C6_Non200IsFatal ==
    /\ \A i \in 1..(Len(requests) - 1) : requests[i].status_code = 200
    /\ ~AllPostsOk => pc \in {"raise", "exited"} /\ exc.type = "RuntimeError"
    /\ (pc = "exited" /\ ~AllPostsOk) => exitcode > 0
    /\ exitcode = 0 => AllPostsOk

\* The raw comment of an output that holds a summary was refused with 404:
\* the run is over, with exit status 1 and without the summary comment.
C6_Witness ==
    /\ pc = "exited"
    /\ HasSummaryPattern(OutText)
    /\ re_search(OutText).matched
    /\ Len(requests) = 1
    /\ requests[1].status_code = 404
    /\ exitcode = 1

\* The comment bodies of a finished run, from the standard output and the
\* answer to the first POST alone.
ExpectedBodies(text, first_ok) ==
    LET found == re_search(text)
    IN  IF /\ first_ok
           /\ found.matched
           /\ \A g \in 1..3 : IntParses(found.groups[g])
        THEN << RAW_PREFIX \o text,
                SummaryBody([files |-> StrToInt(found.groups[1]),
                             insertions |-> StrToInt(found.groups[2]),
                             deletions |-> StrToInt(found.groups[3])]) >>
        ELSE << RAW_PREFIX \o text >>

\* C7: the return code and the standard error of the subprocess decide
\* nothing: whatever they are, the run goes on to post the raw comment built
\* from the standard output, no error comes from them, and the comments
\* posted are those the standard output and the POST answers determine.
C7_ExitCodeAndStderrIgnored ==
    Communicated =>
        /\ exc.type \in {"None", "RuntimeError", "ValueError"}
        /\ exc.type = "RuntimeError" => ~AllPostsOk
        /\ pc # "write_raw" =>
              /\ Len(requests) >= 1
              /\ requests[1].body = RAW_PREFIX \o OutText
        /\ pc = "exited" =>
              [i \in 1..Len(requests) |-> requests[i].body]
                  = ExpectedBodies(OutText, requests[1].status_code = 200)

\* The subprocess failed (return code 1, a message on standard error,
\* nothing on standard output) and the run posted the empty raw comment and
\* ended with exit status 0.
C7_Witness ==
    /\ pc = "exited"
    /\ proc.returncode = 1
    /\ proc.err # ""
    /\ proc.out = <<>>
    /\ Len(requests) = 1
    /\ requests[1].body = RAW_PREFIX
    /\ exitcode = 0

\* C8: every POST carries the token GITHUB_TOKEN holds at that call; with
\* the variable unset the call fails nowhere locally: the POST is issued
\* (its header reads "Bearer None") and only a status other than 200 makes
\* it raise.
C8_TokenReadAtCallTime ==
    [][requests' # requests =>
        LET r == requests'[Len(requests')]
        IN  /\ r.authorization =
                  IF environ.set THEN BEARER \o environ.value ELSE BEARER_NONE
            /\ ~environ.set =>
                  /\ Len(requests') = Len(requests) + 1
                  /\ (exc'.type = "RuntimeError") <=> (r.status_code # 200)
                  /\ r.status_code = 200 => exc' = NoExc /\ pc' \in {"search", "return"}
    ]_vars

\* The variable was unset at the first call and set at the second: the two
\* POSTs of one run carry different headers, and the run succeeded.
C8_Witness ==
    /\ Len(requests) = 2
    /\ requests[1].authorization = BEARER_NONE
    /\ requests[2].authorization = BEARER \o <<"t","1">>
    /\ exitcode = 0

\* C9: nothing is sent again: a run issues at most two POSTs, one for each
\* call of WriteComment made so far, no two of them with the same body, and
\* none after a status other than 200.
C9_NoRetry ==
    /\ Len(requests) <= 2
    /\ pc \in {"main", "popen", "write_raw"} => Len(requests) = 0
    /\ pc \in {"search", "convert", "write_summary"} => Len(requests) = 1
    /\ \A i, j \in 1..Len(requests) :
          i < j => /\ requests[i].body # requests[j].body
                   /\ requests[i].status_code = 200

\* The summary comment was refused with 404 and the run ended there, with
\* two POSTs issued.
C9_Witness ==
    /\ pc = "exited"
    /\ Len(requests) = 2
    /\ requests[2].status_code = 404
    /\ exc.type = "RuntimeError"

\* C2: for an output that holds "N1 files changed, N2 insertions(+),
\* N3 deletions(-)", lines 40-47 yield files = N1, insertions = N2,
\* deletions = N3.
C2_ParseYieldsSummary ==
    (ParseDone /\ HasSummaryPattern(OutText)) =>
        /\ exc.type # "ValueError"
        /\ summary = ExpectedSummary(OutText)

\* The part of C2 that holds: when the leftmost match of the pattern has
\* three non-empty groups, the summary is N1, N2, N3 of the first instance.
ParseCorrectOnProperMatch ==
    (ParseDone /\ m.matched /\ \A g \in 1..3 : m.groups[g] # <<>>) =>
        /\ HasSummaryPattern(OutText)
        /\ summary = ExpectedSummary(OutText)

\* C3: for an output that holds no "<n> files changed, <n> insertions(+),
\* <n> deletions(-)" with three integers, lines 40-47 raise nothing, build no
\* summary, and no summary comment is posted.
C3_NoSummaryOnMiss ==
    (ParseDone /\ ~HasSummaryPattern(OutText)) =>
        /\ exc.type # "ValueError"
        /\ summary = NoSummary
        /\ Len(requests) = 1

\* C4: in a finished run whose output holds the summary pattern and whose
\* POSTs all got 200, the subprocess was waited on before anything was
\* posted, and exactly two comments were posted to the same URL: first
\* "Output => <stdout>", then "files = N1 - insertions = N2 - deletions = N3".
C4_RawThenSummary ==
    /\ ~Communicated => requests = <<>>
    /\ (pc = "exited" /\ Communicated /\ HasSummaryPattern(OutText) /\ AllPostsOk) =>
          /\ Len(requests) = 2
          /\ requests[1].body = RAW_PREFIX \o OutText
          /\ requests[2].body = SummaryBody(ExpectedSummary(OutText))
          /\ requests[1].url = ExpectedUrl
          /\ requests[2].url = ExpectedUrl

\* The part of C4 that holds: the same, for the outputs whose leftmost match
\* of the pattern has three non-empty groups.
RawThenSummaryOnProperMatch ==
    (/\ pc = "exited"
     /\ Communicated
     /\ AllPostsOk
     /\ re_search(OutText).matched
     /\ \A g \in 1..3 : re_search(OutText).groups[g] # <<>>) =>
          /\ Len(requests) = 2
          /\ requests[1].body = RAW_PREFIX \o OutText
          /\ requests[2].body = SummaryBody(ExpectedSummary(OutText))
          /\ requests[1].url = ExpectedUrl
          /\ requests[2].url = ExpectedUrl

\* C5: a finished run whose output is empty, or holds no summary pattern,
\* and whose POST got 200 posted exactly one comment, "Output => <stdout>",
\* and completed normally.
C5_OnlyRawOnMiss ==
    (pc = "exited" /\ Communicated /\ ~HasSummaryPattern(OutText) /\ AllPostsOk) =>
        /\ Len(requests) = 1
        /\ requests[1].body = RAW_PREFIX \o OutText
        /\ exc = NoExc
        /\ exitcode = 0

\* C10: RunDiff ends with no error but the RuntimeError of a refused POST:
\* whenever the pattern matches, its three groups are non-empty digit
\* strings, so the conversions succeed, and a run whose POSTs all got 200
\* completes normally with one or two comments.
C10_OnlyRuntimeError ==
    Communicated =>
        /\ exc.type \in {"None", "RuntimeError"}
        /\ m.matched => \A g \in 1..3 : IntParses(m.groups[g])
        /\ (pc = "exited" /\ AllPostsOk) =>
              /\ exitcode = 0
              /\ Len(requests) \in {1, 2}

====
